---- MODULE Spec2Model ----
(***************************************************************************)
(* Masonry photo gallery: the Pagination Controller (Home.loadPhotos) and  *)
(* the Visibility Trigger (useInfiniteScroll) of one gallery instance.     *)
(*                                                                         *)
(* React state is modelled by two records: `cur` is the value each state   *)
(* hook holds once every queued update is applied (setX calls act on it),  *)
(* `view` is the value the last render saw.  The loadPhotos callback is    *)
(* re-created by useCallback([page]), so a callback is identified by the   *)
(* page its closure captured.  A render, its commit and its effects are    *)
(* one step: between a render and its effects the observer still holds the *)
(* old callback, exactly as before the render.                             *)
(*                                                                         *)
(* An event-loop task together with the microtasks it leaves behind is one *)
(* step: the synchronous part of loadPhotos up to `await`, and the         *)
(* continuation after it together with the `.finally` handler the trigger  *)
(* attached to the same promise.                                           *)
(***************************************************************************)
EXTENDS Integers, Sequences, FiniteSets, TLC

\* ---- bounds -------------------------------------------------------------
MaxFetches == 3        \* fetchPhotos calls in one behaviour
MaxPageLen == 1        \* photos in one response
MaxPhotoId == 2        \* distinct photo ids the data source serves
MaxPhotos == 3         \* photos handed to distributePhotosGreedy, of any shapes
MaxUniform == 5        \* photos handed to distributePhotosGreedy, all of one shape
MaxColumns == 3        \* columnCount handed to distributePhotosGreedy
MaxDim == 2            \* largest photo width and height, in pixels
MaxFrames == 2         \* animation frames requested and not yet run
MaxList == 3           \* photos in /photo_set.json
MaxApiPage == 3        \* largest page fetchPhotos is called with
MaxRevs == 2           \* photo arrays Home hands to one PhotoGrid
MaxGridPhotos == 2     \* photos in an array handed to PhotoGrid

\* ---- program constants --------------------------------------------------
PerPage == 80          \* fetchPhotos(currentPage, 80)
FirstPage == 1         \* useState(1); reset ? 1 : page

PhotoIds == 1 .. MaxPhotoId

RECURSIVE SeqsUpTo(_)
SeqsUpTo(n) ==
  IF n = 0 THEN {<<>>}
  ELSE LET shorter == SeqsUpTo(n - 1)
       IN shorter \cup {Append(s, x) : s \in {t \in shorter : Len(t) = n - 1}, x \in PhotoIds}

\* PexelsResponse: photos and the optional next_page string
NextPageVals == {"undefined", "", "2"}
PexelsResponse == [photos : SeqsUpTo(MaxPageLen), next_page : NextPageVals]

\* what fetchPhotos can reject with
FetchErrors == {"Error: Failed to fetch photos"}

\* JavaScript !!x for an optional string
Truthy(s) == s \notin {"undefined", ""}

NoError == <<>>        \* useState<string | null>(null)

VARIABLES
  cur,           \* Home state with every queued update applied
  view,          \* Home state as of the last render
  loadingRef,    \* Home: loadingRef.current
  inflight,      \* fetchPhotos promises not yet settled
  fetchLog,      \* pages fetchPhotos was called with, in call order
  observer,      \* useInfiniteScroll: the effect's IntersectionObserver and the callback it closes over
  isLoadingRef,  \* useInfiniteScroll: isLoadingRef.current
  timer,         \* useInfiniteScroll: the pending window.setTimeout
  mounted,       \* the Home component is mounted
  variant,       \* which useInfiniteScroll is wired: "debounce" or "immediate"
  gen,           \* useInfiniteScroll: which run of the effect the live observer belongs to
  last,          \* the handler that ran last, its arguments and its outcome
  layout,        \* distributePhotosGreedy: its arguments and what it returned
  grid,          \* useResponsiveColumns: container width, columnCount state, frames requested
  photoSet,      \* the photo list the dev server stores in /photo_set.json
  api,           \* a call of fetchPhotos or fetchPhotoById: environment, arguments, transport, result
  detail,        \* PhotoDetailPage: its state, its guard and the lookup in flight
  twins          \* two galleries fed the same events: the debounced and the immediate trigger

vars == <<cur, view, loadingRef, inflight, fetchLog, observer, isLoadingRef,
          timer, mounted, variant, gen, last, layout, grid, photoSet, api, detail,
          twins>>

\* the state of the layout functions, which the gallery's handlers never touch
aside == <<layout, grid, photoSet, api, detail, twins>>

\* the state of the data source, of the detail page and of the side-by-side galleries
services == <<photoSet, api, detail, twins>>

\* the state of Home and useInfiniteScroll
gallery == <<cur, view, loadingRef, inflight, fetchLog, observer, isLoadingRef,
             timer, mounted, variant, gen, last>>

\* the Pagination Controller's own state
ctl == <<cur, loadingRef, inflight, fetchLog>>

InitialState ==
  [photos |-> <<>>, isLoading |-> FALSE, error |-> NoError,
   page |-> FirstPage, hasMore |-> TRUE]

NoTimer == [pending |-> FALSE, page |-> 0, gen |-> 0]
NoObserver == [active |-> FALSE, page |-> 0]

Event(op, reset, page, ignored, via, photos, next) ==
  [op |-> op, reset |-> reset, page |-> page, ignored |-> ignored,
   via |-> via, photos |-> photos, next_page |-> next]

Plain(op) == Event(op, FALSE, 0, FALSE, "none", <<>>, "undefined")

Variants == {"debounce", "immediate"}

\* distributePhotosGreedy not called, useResponsiveColumns not mounted
NoLayout == [status |-> "idle"]
NoGrid == [status |-> "idle"]

\* no stored list read, no API call made, PhotoDetailPage not mounted, no
\* side-by-side galleries
NoApi == [status |-> "idle"]
NoDetail == [status |-> "idle"]
NoTwins == [status |-> "idle"]
NoServices == photoSet = <<>> /\ api = NoApi /\ detail = NoDetail /\ twins = NoTwins

GalleryInit ==
  /\ cur = InitialState
  /\ view = InitialState
  /\ loadingRef = FALSE
  /\ inflight = {}
  /\ fetchLog = <<>>
  /\ observer = [active |-> TRUE, page |-> FirstPage]
  /\ isLoadingRef = FALSE
  /\ timer = NoTimer
  /\ mounted = TRUE
  /\ variant \in Variants
  /\ gen = 1
  /\ last = Plain("mount")

Init ==
  /\ GalleryInit
  /\ layout = NoLayout
  /\ grid = NoGrid
  /\ NoServices

\* ---- Home.loadPhotos ----------------------------------------------------

GuardedOff == FALSE

\* if (loadingRef.current) return;
Guarded == loadingRef

CurrentPageNoReset(reset, page) == page

\* const currentPage = reset ? 1 : page;
CurrentPage(reset, page) == IF reset THEN FirstPage ELSE page

MergePhotosReplace(prev, reset, photos) == photos

MergePhotosPrepend(prev, reset, photos) == IF reset THEN photos ELSE photos \o prev

\* setPhotos((prev) => reset ? response.photos : [...prev, ...response.photos])
MergePhotos(prev, reset, photos) == IF reset THEN photos ELSE prev \o photos

\* setPage(currentPage + 1)
NextCursor(currentPage) == currentPage + 1

\* setHasMore(!!response.next_page)
HasMoreOf(next_page) == Truthy(next_page)

StartLoadKeepingError(reset, page, trig) ==
  /\ loadingRef' = TRUE
  /\ cur' = [cur EXCEPT !.isLoading = TRUE]
  /\ inflight' = inflight \cup
       {[id |-> Len(fetchLog) + 1, page |-> CurrentPage(reset, page),
         perPage |-> PerPage, reset |-> reset, trig |-> trig]}
  /\ fetchLog' = Append(fetchLog, CurrentPage(reset, page))

StartLoadClearing(reset, page, trig) ==
  /\ loadingRef' = TRUE
  /\ cur' = [cur EXCEPT !.isLoading = TRUE, !.error = NoError,
                        !.photos = IF reset THEN <<>> ELSE @]
  /\ inflight' = inflight \cup
       {[id |-> Len(fetchLog) + 1, page |-> CurrentPage(reset, page),
         perPage |-> PerPage, reset |-> reset, trig |-> trig]}
  /\ fetchLog' = Append(fetchLog, CurrentPage(reset, page))

\* the try block up to the await: flag, setIsLoading(true), setError(null), fetchPhotos(currentPage, 80)
StartLoad(reset, page, trig) ==
  /\ loadingRef' = TRUE
  /\ cur' = [cur EXCEPT !.isLoading = TRUE, !.error = NoError]
  /\ inflight' = inflight \cup
       {[id |-> Len(fetchLog) + 1, page |-> CurrentPage(reset, page),
         perPage |-> PerPage, reset |-> reset, trig |-> trig]}
  /\ fetchLog' = Append(fetchLog, CurrentPage(reset, page))

\* loadPhotos(reset) called through a callback whose closure captured `page`
loadPhotos(reset, page, trig) ==
  IF Guarded THEN UNCHANGED ctl ELSE StartLoad(reset, page, trig)

\* after the await, response received: the three setters, then finally
OnSuccess(f, resp) ==
  [cur EXCEPT !.photos = MergePhotos(@, f.reset, resp.photos),
              !.page = NextCursor(f.page),
              !.hasMore = HasMoreOf(resp.next_page),
              !.isLoading = FALSE]

OnFailureAdvance(f, err) ==
  [cur EXCEPT !.error = <<"Error loading photos: ", err>>,
              !.page = NextCursor(f.page),
              !.isLoading = FALSE]

\* catch: setError(`Error loading photos: ${error}`), then finally
OnFailure(f, err) ==
  [cur EXCEPT !.error = <<"Error loading photos: ", err>>,
              !.isLoading = FALSE]

FlagStuck == TRUE

\* finally { ...; loadingRef.current = false }
FlagAfterSettle == FALSE

BusyAfterSettleKept(f) == isLoadingRef

\* potentialPromise.finally(() => { isLoadingRef.current = false })
BusyAfterSettle(f) == IF f.trig THEN FALSE ELSE isLoadingRef

Via(f) == IF f.trig THEN "trigger" ELSE "direct"

\* the continuation of loadPhotos after the await, for the response resp
ResolveWith(f, resp) ==
  /\ cur' = OnSuccess(f, resp)
  /\ loadingRef' = FlagAfterSettle
  /\ inflight' = inflight \ {f}
  /\ isLoadingRef' = BusyAfterSettle(f)
  /\ last' = Event("resolve", f.reset, f.page, FALSE, Via(f), resp.photos, resp.next_page)
  /\ UNCHANGED <<view, fetchLog, observer, timer, mounted, variant, gen, aside>>

FetchResolve ==
  \E f \in inflight, resp \in PexelsResponse : ResolveWith(f, resp)

FetchReject ==
  \E f \in inflight, err \in FetchErrors :
    /\ cur' = OnFailure(f, err)
    /\ loadingRef' = FlagAfterSettle
    /\ inflight' = inflight \ {f}
    /\ isLoadingRef' = BusyAfterSettle(f)
    /\ last' = Event("reject", f.reset, f.page, FALSE, Via(f), <<>>, "undefined")
    /\ UNCHANGED <<view, fetchLog, observer, timer, mounted, variant, gen, aside>>

\* the fetch budget of one behaviour: a call that would start a fetch needs budget
CanCall == Guarded \/ Len(fetchLog) < MaxFetches

\* loadPhotos(reset) called on the callback of the current render
DirectLoad ==
  \E reset \in BOOLEAN :
    /\ mounted
    /\ CanCall
    /\ loadPhotos(reset, view.page, FALSE)
    /\ last' = Event("load", reset, view.page, Guarded, "direct", <<>>, "undefined")
    /\ UNCHANGED <<view, observer, isLoadingRef, timer, mounted, variant, gen, aside>>

\* ---- useInfiniteScroll --------------------------------------------------

\* if (entries[0]?.isIntersecting && !isLoadingRef.current)
AcceptsHidden(isIntersecting) == ~isIntersecting /\ ~isLoadingRef

\* if (entries[0]?.isIntersecting && !isLoadingRef.current)
Accepts(isIntersecting) == isIntersecting /\ ~isLoadingRef

\* const potentialPromise = callback(); settle handling of the returned promise:
\* a guarded call returns an already resolved promise, whose finally handler
\* runs before the next task
Invoke(page) ==
  /\ loadPhotos(FALSE, page, TRUE)
  /\ isLoadingRef' = ~Guarded
  /\ last' = Event("load", FALSE, page, Guarded, "trigger", <<>>, "undefined")

\* the IntersectionObserver callback
Intersect ==
  \E isIntersecting \in BOOLEAN :
    /\ mounted
    /\ observer.active
    /\ IF Accepts(isIntersecting)
       THEN IF variant = "debounce"
            THEN /\ isLoadingRef' = TRUE
                 /\ timer' = [pending |-> TRUE, page |-> observer.page, gen |-> gen]
                 /\ last' = Plain("intersect")
                 /\ UNCHANGED ctl
            ELSE /\ CanCall
                 /\ Invoke(observer.page)
                 /\ UNCHANGED timer
       ELSE /\ last' = [Plain("intersect") EXCEPT
                           !.ignored = TRUE,
                           !.via = IF isIntersecting THEN "visible" ELSE "hidden"]
            /\ UNCHANGED <<ctl, isLoadingRef, timer>>
    /\ UNCHANGED <<view, observer, mounted, variant, gen, aside>>

\* the window.setTimeout callback, 200 ms after an accepted event
TimerFire ==
  /\ timer.pending
  /\ CanCall
  /\ Invoke(timer.page)
  /\ timer' = NoTimer
  /\ UNCHANGED <<view, observer, mounted, variant, gen, aside>>

CleanupTimerKept == timer

\* the effect's cleanup function
CleanupTimer == NoTimer
CleanupBusy == FALSE

\* useEffect(..., [callback, hasMore]): early return, or a new observer on the sentinel
SetupObserver(st) ==
  IF st.hasMore THEN [active |-> TRUE, page |-> st.page] ELSE NoObserver

DepsChanged == cur.page # view.page \/ cur.hasMore # view.hasMore

\* what a cleanup did: via = "timer" when clearTimeout cancelled a pending callback
Teardown(op) ==
  [Plain(op) EXCEPT !.via = IF observer.active /\ timer.pending THEN "timer" ELSE "none"]

\* a re-render of Home and PhotoGrid with its commit and effects
Render ==
  /\ mounted
  /\ view # cur
  /\ view' = cur
  /\ IF DepsChanged
     THEN /\ observer' = SetupObserver(cur)
          /\ gen' = gen + 1
          /\ IF observer.active
             THEN timer' = CleanupTimer /\ isLoadingRef' = CleanupBusy
             ELSE UNCHANGED <<timer, isLoadingRef>>
     ELSE UNCHANGED <<observer, timer, isLoadingRef, gen>>
  /\ last' = IF DepsChanged THEN Teardown("render") ELSE Plain("render")
  /\ UNCHANGED <<ctl, mounted, variant, aside>>

\* the gallery is unmounted: every effect's cleanup runs
Unmount ==
  /\ mounted
  /\ mounted' = FALSE
  /\ observer' = NoObserver
  /\ IF observer.active
     THEN timer' = CleanupTimer /\ isLoadingRef' = CleanupBusy
     ELSE UNCHANGED <<timer, isLoadingRef>>
  /\ last' = Teardown("unmount")
  /\ UNCHANGED <<ctl, view, variant, gen, aside>>

Next ==
  \/ DirectLoad
  \/ FetchResolve
  \/ FetchReject
  \/ Intersect
  \/ TimerFire
  \/ Render
  \/ Unmount

Spec == Init /\ [][Next]_vars

\* a timeout that was set and not cleared runs its callback
SpecLive == Init /\ [][Next]_vars /\ WF_vars(TimerFire)

\* and, besides, every fetchPhotos promise settles
SpecSettling ==
  Init /\ [][Next]_vars /\ WF_vars(TimerFire) /\ WF_vars(FetchResolve \/ FetchReject)

TypeOK ==
  /\ loadingRef \in BOOLEAN
  /\ isLoadingRef \in BOOLEAN
  /\ mounted \in BOOLEAN
  /\ Len(fetchLog) <= MaxFetches

\* ---- distributePhotosGreedy --------------------------------------------
\* JavaScript numbers are modelled exactly: a finite value is an integer
\* count of 1/Scale pixels, and Infinity, -Infinity and NaN are values of
\* their own.  Rounding of the floating-point division is not modelled.

RECURSIVE Factorial(_)
Factorial(n) == IF n <= 1 THEN 1 ELSE n * Factorial(n - 1)

\* every photo width divides Scale
Scale == Factorial(MaxDim)

Fin(n) == [k |-> "fin", v |-> n]
Inf(sg) == [k |-> "inf", v |-> sg]
NaN == [k |-> "nan", v |-> 0]

Sgn(n) == IF n > 0 THEN 1 ELSE IF n < 0 THEN -1 ELSE 0
Abs(n) == IF n < 0 THEN -n ELSE n

\* columnWidth / (photo.width / photo.height)
\*   0 / 0 is NaN; w / 0 is +-Infinity and cw / +-Infinity is +-0;
\*   0 / h is +-0 and cw / +-0 is +-Infinity, or NaN when cw is 0
Quotient(cw, w, h) ==
  IF w = 0 /\ h = 0 THEN NaN
  ELSE IF h = 0 THEN Fin(0)
  ELSE IF w = 0 THEN (IF cw = 0 THEN NaN ELSE Inf(Sgn(cw) * Sgn(h)))
  ELSE Fin(Sgn(w) * cw * h * (Scale \div Abs(w)))

\* a + b
Plus(a, b) ==
  IF a.k = "nan" \/ b.k = "nan" THEN NaN
  ELSE IF a.k = "inf" /\ b.k = "inf" THEN (IF a.v = b.v THEN a ELSE NaN)
  ELSE IF a.k = "inf" THEN a
  ELSE IF b.k = "inf" THEN b
  ELSE Fin(a.v + b.v)

\* a <= b for numbers that are not NaN
Leq(a, b) ==
  IF a.k = "inf" THEN (a.v = -1 \/ a = b)
  ELSE IF b.k = "inf" THEN b.v = 1
  ELSE a.v <= b.v

\* a === b
StrictEq(a, b) == a.k # "nan" /\ b.k # "nan" /\ a = b

\* Math.min(...xs)
MathMin(xs) ==
  IF Len(xs) = 0 THEN Inf(1)
  ELSE IF \E i \in 1 .. Len(xs) : xs[i].k = "nan" THEN NaN
  ELSE xs[CHOOSE i \in 1 .. Len(xs) : \A j \in 1 .. Len(xs) : Leq(xs[i], xs[j])]

\* xs.indexOf(x): the 0-based index of the first element === x, or -1
IndexOf(xs, x) ==
  IF \E i \in 1 .. Len(xs) : StrictEq(xs[i], x)
  THEN (CHOOSE i \in 1 .. Len(xs) :
          StrictEq(xs[i], x) /\ \A j \in 1 .. (i - 1) : ~StrictEq(xs[j], x)) - 1
  ELSE -1

\* const renderedHeight = columnWidth / (photo.width / photo.height) + gap
RenderedHeight(photo, columnWidth, gap) ==
  Plus(Quotient(columnWidth, photo.width, photo.height), Fin(gap * Scale))

\* xs.lastIndexOf(x)
LastIndexOf(xs, x) ==
  IF \E i \in 1 .. Len(xs) : StrictEq(xs[i], x)
  THEN (CHOOSE i \in 1 .. Len(xs) :
          StrictEq(xs[i], x) /\ \A j \in (i + 1) .. Len(xs) : ~StrictEq(xs[j], x)) - 1
  ELSE -1

LastShortestIndex(columnHeights) == LastIndexOf(columnHeights, MathMin(columnHeights))

\* const shortestIndex = columnHeights.indexOf(Math.min(...columnHeights))
ShortestIndex(columnHeights) == IndexOf(columnHeights, MathMin(columnHeights))

GreedyStartExtra(columnCount, gap) ==
  [status |-> "returned",
   columnHeights |-> [i \in 1 .. columnCount + 1 |-> Fin(gap * Scale)],
   columns |-> [i \in 1 .. columnCount + 1 |-> <<>>]]

\* Array(columnCount).fill(gap) and Array.from({ length: columnCount }, () => [])
GreedyStart(columnCount, gap) ==
  [status |-> "returned",
   columnHeights |-> [i \in 1 .. columnCount |-> Fin(gap * Scale)],
   columns |-> [i \in 1 .. columnCount |-> <<>>]]

PlaceAssign(st, photo, columnWidth, gap) ==
  IF st.status # "returned" THEN st
  ELSE LET shortestIndex == ShortestIndex(st.columnHeights)
       IN IF shortestIndex = -1
          THEN [st EXCEPT !.status = "TypeError"]
          ELSE [st EXCEPT
                  !.columns[shortestIndex + 1] = <<photo>>,
                  !.columnHeights[shortestIndex + 1] =
                     Plus(@, RenderedHeight(photo, columnWidth, gap))]

PlaceUnshift(st, photo, columnWidth, gap) ==
  IF st.status # "returned" THEN st
  ELSE LET shortestIndex == ShortestIndex(st.columnHeights)
       IN IF shortestIndex = -1
          THEN [st EXCEPT !.status = "TypeError"]
          ELSE [st EXCEPT
                  !.columns[shortestIndex + 1] = <<photo>> \o @,
                  !.columnHeights[shortestIndex + 1] =
                     Plus(@, RenderedHeight(photo, columnWidth, gap))]

\* one round of photos.forEach; columns[-1].push throws a TypeError
Place(st, photo, columnWidth, gap) ==
  IF st.status # "returned" THEN st
  ELSE LET shortestIndex == ShortestIndex(st.columnHeights)
       IN IF shortestIndex = -1
          THEN [st EXCEPT !.status = "TypeError"]
          ELSE [st EXCEPT
                  !.columns[shortestIndex + 1] = Append(@, photo),
                  !.columnHeights[shortestIndex + 1] =
                     Plus(@, RenderedHeight(photo, columnWidth, gap))]

\* the state of the function after its first k rounds
RECURSIVE GreedyAfter(_, _, _, _, _)
GreedyAfter(photos, k, columnCount, columnWidth, gap) ==
  IF k = 0 THEN GreedyStart(columnCount, gap)
  ELSE Place(GreedyAfter(photos, k - 1, columnCount, columnWidth, gap),
             photos[k], columnWidth, gap)

distributePhotosGreedy(photos, columnCount, columnWidth, gap) ==
  GreedyAfter(photos, Len(photos), columnCount, columnWidth, gap)

\* the earlier variant: photos.filter((_, index) => index % columnCount === i)
RECURSIVE FilterByIndex(_, _, _, _)
FilterByIndex(photos, n, columnCount, i) ==
  IF n = 0 THEN <<>>
  ELSE LET rest == FilterByIndex(photos, n - 1, columnCount, i)
       IN IF (n - 1) % columnCount = i THEN Append(rest, photos[n]) ELSE rest

\* Array.from({ length: columnCount }, (_, i) => photos.filter(...))
distributeModulo(photos, columnCount) ==
  [c \in 1 .. columnCount |-> FilterByIndex(photos, Len(photos), columnCount, c - 1)]

\* the arguments the function is checked on
\* sound photos, photos with a zero side, and one photo for each negative side
Dims == 0 .. MaxDim
Shapes == [width : Dims, height : Dims]
            \cup {[width |-> -1, height |-> 1], [width |-> 1, height |-> -1]}
ColumnCounts == 1 .. MaxColumns
ColumnWidths == {-100, 0, 100}
Gaps == {10, 16}

\* PhotoGrid gets an empty collection first
InitGreedy ==
  /\ GalleryInit
  /\ variant = "debounce"
  /\ grid = NoGrid
  /\ NoServices
  /\ layout \in [status : {"called"}, photos : {<<>>},
                 columnCount : ColumnCounts, columnWidth : ColumnWidths,
                 gap : Gaps]

Uniform(photos) ==
  \A i \in 1 .. Len(photos) :
     photos[i].width = photos[1].width /\ photos[i].height = photos[1].height

\* the collection grows by one photo, whose id is its position
AddPhoto ==
  \E sh \in Shapes :
    /\ layout.status = "called"
    /\ \/ Len(layout.photos) < MaxPhotos
       \/ /\ Len(layout.photos) >= 1
          /\ Len(layout.photos) < MaxUniform
          /\ Uniform(layout.photos)
          /\ sh.width = layout.photos[1].width
          /\ sh.height = layout.photos[1].height
    /\ layout' = [layout EXCEPT !.photos =
                    Append(@, [id |-> Len(@) + 1, width |-> sh.width, height |-> sh.height])]
    /\ UNCHANGED <<gallery, grid, services>>

\* the call runs to its return or to the exception
Distribute ==
  /\ layout.status = "called"
  /\ LET out == distributePhotosGreedy(layout.photos, layout.columnCount,
                                       layout.columnWidth, layout.gap)
     IN layout' = [status |-> out.status, photos |-> layout.photos,
                   columnCount |-> layout.columnCount,
                   columnWidth |-> layout.columnWidth, gap |-> layout.gap,
                   columns |-> out.columns, columnHeights |-> out.columnHeights]
  /\ UNCHANGED <<gallery, grid, services>>

NextGreedy ==
  \/ AddPhoto
  \/ Distribute

SpecGreedy == InitGreedy /\ [][NextGreedy]_vars

\* ---- useResponsiveColumns: the column count of the grid ------------------

\* Math.min(4, ...), the padding 16 and the minimum column width of 18rem
MaxColumnCap == 4
ContainerPadding == 16
MinColumnRem == 18

Min2(a, b) == IF a <= b THEN a ELSE b
Max2(a, b) == IF a >= b THEN a ELSE b

calculateColumnsWrapped(containerWidth, remSize) ==
  Max2(1, ((containerWidth - ContainerPadding) \div (MinColumnRem * remSize))
            % (MaxColumnCap + 1))

calculateColumnsNoFloor(containerWidth, remSize) ==
  Min2(MaxColumnCap, (containerWidth - ContainerPadding) \div (MinColumnRem * remSize))

\* Math.max(1, Math.min(4, Math.floor((containerWidth - 16) / (18 * remSize))))
calculateColumns(containerWidth, remSize) ==
  Max2(1, Min2(MaxColumnCap,
               (containerWidth - ContainerPadding) \div (MinColumnRem * remSize)))

\* parseFloat(getComputedStyle(document.documentElement).fontSize), in px
RemSizes == {10, 16, 20}

\* offsetWidth: 0, the padding, and both sides of every column breakpoint
Widths ==
  {0, ContainerPadding - 1, ContainerPadding, ContainerPadding + 1}
    \cup {MinColumnRem * r * k + ContainerPadding - d :
            r \in RemSizes, k \in 1 .. MaxColumnCap + 1, d \in {0, 1}}

\* the hook defers to an animation frame; the inline effect of the earlier
\* PhotoGrid sets the state in the resize callback
GridVariants == {"hook", "inline"}

\* useState(1) in the hook, useState(2) in the earlier PhotoGrid
InitialColumns(v) == IF v = "hook" THEN 1 ELSE 2

\* containerRef.current?.offsetWidth || 0: the ref is null after unmount
OffsetWidth(g) == IF g.status = "unmounted" THEN 0 ELSE g.width

Calculated(g) == calculateColumns(OffsetWidth(g), g.remSize)

InitColumns ==
  /\ GalleryInit
  /\ variant = "debounce"
  /\ layout = NoLayout
  /\ NoServices
  /\ grid \in [status : {"rendered"}, variant : GridVariants, remSize : RemSizes,
               width : Widths, columnCount : 1 .. MaxColumnCap, frames : {0},
               notify : {FALSE}, returned : {0}, last : {"render"}]
  /\ grid.columnCount = InitialColumns(grid.variant)

\* the effect after the first render: observe, and in the hook the initial
\* calculation; the observer reports the observed element once
GridEffect ==
  /\ grid.status = "rendered"
  /\ grid' = IF grid.variant = "hook"
             THEN [grid EXCEPT !.status = "observing", !.notify = TRUE,
                               !.columnCount = Calculated(grid),
                               !.returned = Calculated(grid), !.last = "effect"]
             ELSE [grid EXCEPT !.status = "observing", !.notify = TRUE,
                               !.last = "effect"]
  /\ UNCHANGED <<gallery, layout, services>>

\* the container gets another width
Resize ==
  \E w \in Widths :
    /\ grid.status \in {"rendered", "observing"}
    /\ w # grid.width
    /\ grid' = [grid EXCEPT !.width = w,
                            !.notify = @ \/ grid.status = "observing",
                            !.last = "resize"]
    /\ UNCHANGED <<gallery, layout, services>>

\* the ResizeObserver callback
ResizeCallback ==
  /\ grid.status = "observing"
  /\ grid.notify
  /\ grid.variant = "hook" => grid.frames < MaxFrames
  /\ grid' = IF grid.variant = "hook"
             THEN [grid EXCEPT !.notify = FALSE, !.frames = @ + 1,
                               !.last = "callback"]
             ELSE [grid EXCEPT !.notify = FALSE,
                               !.columnCount = Calculated(grid),
                               !.returned = Calculated(grid), !.last = "callback"]
  /\ UNCHANGED <<gallery, layout, services>>

FrameRefetch ==
  /\ grid.status # "idle"
  /\ grid.frames > 0
  /\ Len(fetchLog) < MaxFetches
  /\ grid' = [grid EXCEPT !.frames = @ - 1,
                          !.columnCount = Calculated(grid),
                          !.returned = Calculated(grid), !.last = "frame"]
  /\ fetchLog' = Append(fetchLog, FirstPage)
  /\ UNCHANGED <<cur, view, loadingRef, inflight, observer, isLoadingRef,
                 timer, mounted, variant, gen, last, layout, services>>

\* requestAnimationFrame(() => setColumnCount(calculateColumns())); the
\* frame is not cancelled by the cleanup
Frame ==
  /\ grid.status # "idle"
  /\ grid.frames > 0
  /\ grid' = [grid EXCEPT !.frames = @ - 1,
                          !.columnCount = Calculated(grid),
                          !.returned = Calculated(grid), !.last = "frame"]
  /\ UNCHANGED <<gallery, layout, services>>

\* return () => observer.disconnect()
GridUnmount ==
  /\ grid.status = "observing"
  /\ grid' = [grid EXCEPT !.status = "unmounted", !.notify = FALSE,
                          !.last = "unmount"]
  /\ UNCHANGED <<gallery, layout, services>>

NextColumns ==
  \/ GridEffect
  \/ Resize
  \/ ResizeCallback
  \/ Frame
  \/ GridUnmount

SpecColumns == InitColumns /\ [][NextColumns]_vars

\* ---- the data source: fetchPhotos and fetchPhotoById ----------------------

\* a parsed JSON body: a page, a photo, an array of photos, another object, null
Value(t, photos, next_page, id) ==
  [t |-> t, photos |-> photos, next_page |-> next_page, id |-> id]
PageValue(photos, next_page) == Value("page", photos, next_page, 0)
PhotoValue(id) == Value("photo", <<>>, "undefined", id)
ListValue(photos) == Value("list", photos, "undefined", 0)
ObjectValue == Value("object", <<>>, "undefined", 0)
NullValue == Value("null", <<>>, "undefined", 0)

\* a settled promise
Resolve(v) == [outcome |-> "resolved", value |-> v, error |-> "none"]
Reject(e) == [outcome |-> "rejected", value |-> NullValue, error |-> e]

\* what fetch() delivers: a rejection, or a Response with ok and a body
NetworkError == [kind |-> "network", ok |-> FALSE, json |-> FALSE, value |-> NullValue]
Response(ok, json, v) == [kind |-> "response", ok |-> ok, json |-> json, value |-> v]

\* response.json(): the parsed body, or a SyntaxError for a body that is no JSON
ResponseJsonDropping(tr) ==
  IF ~tr.json THEN Reject("SyntaxError")
  ELSE Resolve([tr.value EXCEPT !.photos = IF @ = <<>> THEN @ ELSE Tail(@)])

ResponseJson(tr) ==
  IF tr.json THEN Resolve(tr.value) ELSE Reject("SyntaxError")

\* await fetch(...) rejected
FetchFailed == Reject("TypeError: Failed to fetch")

\* fetchLocalPhotos and fetchLocalPhotoById: no look at response.ok
fetchLocal(tr) ==
  IF tr.kind = "network" THEN FetchFailed ELSE ResponseJson(tr)

\* if (!response.ok) throw new Error(`Failed to fetch photos: ...`)
OkCheckOff(tr) == TRUE
OkCheck(tr) == tr.ok

\* fetchPhotosFromPexels and fetchPhotoByIdFromPexels
fetchFromPexels(tr, what) ==
  IF tr.kind = "network" THEN FetchFailed
  ELSE IF ~OkCheck(tr) THEN Reject("Error: Failed to fetch " \o what)
  ELSE ResponseJson(tr)

\* photos.slice(from, to) with 0-based bounds, to clamped to the length
Slice(photos, from, to) == SubSeq(photos, from + 1, Min2(to, Len(photos)))

SliceFromListEnding(page, perPage, photos) ==
  LET startIndex == (page - 1) * perPage
  IN PageValue(Slice(photos, startIndex, startIndex + perPage),
               IF startIndex + perPage < Len(photos)
               THEN ToString(page + 1) ELSE "undefined")

\* the page fetchPhotosFromList cuts from the stored list; on an empty list
\* startIndex and endIndex are NaN and both comparisons and slice give []
SliceFromList(page, perPage, photos) ==
  IF Len(photos) = 0 THEN PageValue(<<>>, ToString(page + 1))
  ELSE LET startIndex == ((page - 1) * perPage) % Len(photos)
           endIndex == Min2(startIndex + perPage, Len(photos))
           remainingCount == perPage - (endIndex - startIndex)
       IN IF endIndex - startIndex < perPage
          THEN PageValue(Slice(photos, startIndex, endIndex)
                           \o Slice(photos, 0, remainingCount),
                         ToString(page + 1))
          ELSE PageValue(Slice(photos, startIndex, endIndex), ToString(page + 1))

\* fetchPhotosFromList: a body that is no array has no slice
fetchPhotosFromList(page, perPage, tr) ==
  IF tr.kind = "network" THEN FetchFailed
  ELSE IF ~tr.json THEN Reject("SyntaxError")
  ELSE IF tr.value.t # "list" THEN Reject("TypeError")
  ELSE Resolve(SliceFromList(page, perPage, tr.value.photos))

\* photos.find((p) => p.id === id)
Found(photos, id) == \E i \in 1 .. Len(photos) : photos[i] = id

\* fetchPhotoByIdFromList
fetchPhotoByIdFromList(id, tr) ==
  IF tr.kind = "network" THEN FetchFailed
  ELSE IF ~tr.json THEN Reject("SyntaxError")
  ELSE IF tr.value.t # "list" THEN Reject("TypeError")
  ELSE IF ~Found(tr.value.photos, id) THEN Reject("Error: Photo with ID not found")
  ELSE Resolve(PhotoValue(id))

\* import.meta.env: VITE_BASIC_LOAD, VITE_PEXELS_API_KEY, DEV
Envs == [basicLoad : BOOLEAN, apiKey : BOOLEAN, dev : BOOLEAN]

\* the two versions of the module: app/api/pexels.ts and the later one
Modules == {"pexels.ts", "part_000"}

\* which source fetchPhotos dispatches to
PhotosBackend(module, env) ==
  IF module = "pexels.ts"
  THEN (IF env.dev THEN "local" ELSE "pexels")
  ELSE IF env.basicLoad THEN "local"
  ELSE IF ~env.apiKey \/ env.dev THEN "list"
  ELSE "pexels"

\* which source fetchPhotoById dispatches to
PhotoBackend(module, env) ==
  IF module = "pexels.ts" THEN "pexels" ELSE PhotosBackend(module, env)

fetchPhotos(module, env, page, perPage, tr) ==
  LET backend == PhotosBackend(module, env)
  IN IF backend = "local" THEN fetchLocal(tr)
     ELSE IF backend = "list" THEN fetchPhotosFromList(page, perPage, tr)
     ELSE fetchFromPexels(tr, "photos")

fetchPhotoById(module, env, id, tr) ==
  LET backend == PhotoBackend(module, env)
  IN IF backend = "local" THEN fetchLocal(tr)
     ELSE IF backend = "list" THEN fetchPhotoByIdFromList(id, tr)
     ELSE fetchFromPexels(tr, "photo")

\* the stored list: photos with unique ids
PhotoSets == {[i \in 1 .. n |-> i] : n \in 0 .. MaxList}

\* ids looked up: those of the list and one that no photo has
LookupIds == 1 .. MaxList + 1

\* ---- one call of the data source ------------------------------------------

\* page sizes asked for: a small one and the gallery's 80
ApiPerPages == {2, PerPage}

ApiCalls ==
  [status : {"called"}, module : Modules, env : Envs, fn : {"fetchPhotos"},
   page : 1 .. MaxApiPage, perPage : ApiPerPages, id : {0}]
    \cup [status : {"called"}, module : Modules, env : Envs, fn : {"fetchPhotoById"},
          page : {0}, perPage : {0}, id : LookupIds]

InitApi ==
  /\ GalleryInit
  /\ variant = "debounce"
  /\ layout = NoLayout
  /\ grid = NoGrid
  /\ detail = NoDetail
  /\ twins = NoTwins
  /\ photoSet \in PhotoSets
  /\ api \in ApiCalls

BackendOf(module, env, fn) ==
  IF fn = "fetchPhotos" THEN PhotosBackend(module, env) ELSE PhotoBackend(module, env)

\* the body a server that serves the request sends: the stored list, a page
\* or a photo
GoodBodies(backend, fn) ==
  IF backend = "list" THEN {ListValue(photoSet)}
  ELSE IF fn = "fetchPhotos"
  THEN {PageValue(r.photos, r.next_page) : r \in PexelsResponse}
  ELSE {PhotoValue(i) : i \in LookupIds}

\* what fetch() can deliver: no response, the served body, a body that is no
\* JSON (with either status), an error status with a JSON error object
Transports(backend, fn) ==
  {NetworkError}
    \cup {Response(TRUE, TRUE, v) : v \in GoodBodies(backend, fn)}
    \cup {Response(ok, FALSE, NullValue) : ok \in BOOLEAN}
    \cup {Response(FALSE, TRUE, ObjectValue)}

Settled(call, tr) ==
  [status |-> "settled", module |-> call.module, env |-> call.env, fn |-> call.fn,
   page |-> call.page, perPage |-> call.perPage, id |-> call.id,
   backend |-> BackendOf(call.module, call.env, call.fn),
   transport |-> tr,
   result |-> IF call.fn = "fetchPhotos"
              THEN fetchPhotos(call.module, call.env, call.page, call.perPage, tr)
              ELSE fetchPhotoById(call.module, call.env, call.id, tr)]

\* the transport answers and the promise of the call settles
ApiSettle ==
  \E tr \in Transports(BackendOf(api.module, api.env, api.fn), api.fn) :
    /\ api.status = "called"
    /\ api' = Settled(api, tr)
    /\ UNCHANGED <<gallery, layout, grid, photoSet, detail, twins>>

NextApi == ApiSettle

SpecApi == InitApi /\ [][NextApi]_vars

\* ---- PhotoDetailPage --------------------------------------------------------

\* setError("Failed to load photo. Please try again later.")
FailedMessage == "Failed to load photo. Please try again later."
NotFoundMessage == "Photo not found."
NoMessage == "none"

\* useParams: the id of the route, 0 when the route has none
RouteIds == LookupIds \cup {0}

InitDetail ==
  /\ GalleryInit
  /\ variant = "debounce"
  /\ layout = NoLayout
  /\ grid = NoGrid
  /\ api = NoApi
  /\ twins = NoTwins
  /\ photoSet \in PhotoSets
  /\ detail \in [status : {"mounted"}, module : Modules, env : Envs, id : RouteIds,
                 photo : {NullValue}, isLoading : {TRUE}, error : {NoMessage},
                 loadingRef : {FALSE}, inflight : {FALSE}, lookups : {0},
                 last : {"render"}, cause : {"none"}]

\* what the component returns for its state
Screen(d) ==
  IF d.error # NoMessage THEN [view |-> "Error", message |-> d.error, id |-> 0]
  ELSE IF d.isLoading THEN [view |-> "Spinner", message |-> NoMessage, id |-> 0]
  ELSE IF d.photo.t = "null"
  THEN [view |-> "Error", message |-> NotFoundMessage, id |-> 0]
  ELSE [view |-> "PhotoDetails", message |-> NoMessage, id |-> d.photo.id]

\* loadPhoto() up to the await.  Its one caller is the mount effect, which
\* runs once, or twice in a row under StrictMode: no call follows a lookup
\* that has settled
DetailLoad ==
  /\ detail.status = "mounted"
  /\ detail' =
       IF detail.loadingRef THEN [detail EXCEPT !.last = "ignored"]
       ELSE IF detail.id = 0 THEN [detail EXCEPT !.last = "no id"]
       ELSE [detail EXCEPT !.loadingRef = TRUE, !.isLoading = TRUE,
                           !.error = NoMessage, !.inflight = TRUE,
                           !.lookups = @ + 1, !.last = "load", !.cause = "none"]
  /\ detail.last # "settle"
  /\ UNCHANGED <<gallery, layout, grid, photoSet, api, twins>>

DetailSettleNoFinally ==
  \E tr \in Transports(PhotoBackend(detail.module, detail.env), "fetchPhotoById") :
    LET r == fetchPhotoById(detail.module, detail.env, detail.id, tr)
    IN /\ detail.inflight
       /\ detail' =
            IF r.outcome = "resolved"
            THEN [detail EXCEPT !.photo = r.value, !.loadingRef = FALSE,
                                !.isLoading = FALSE, !.inflight = FALSE,
                                !.last = "settle", !.cause = "resolved"]
            ELSE [detail EXCEPT !.error = FailedMessage, !.inflight = FALSE,
                                !.last = "settle", !.cause = r.error]
       /\ UNCHANGED <<gallery, layout, grid, photoSet, api, twins>>

\* the lookup settles: setPhoto or the catch, then finally
DetailSettle ==
  \E tr \in Transports(PhotoBackend(detail.module, detail.env), "fetchPhotoById") :
    LET r == fetchPhotoById(detail.module, detail.env, detail.id, tr)
    IN /\ detail.inflight
       /\ detail' =
            IF r.outcome = "resolved"
            THEN [detail EXCEPT !.photo = r.value, !.loadingRef = FALSE,
                                !.isLoading = FALSE, !.inflight = FALSE,
                                !.last = "settle", !.cause = "resolved"]
            ELSE [detail EXCEPT !.error = FailedMessage, !.loadingRef = FALSE,
                                !.isLoading = FALSE, !.inflight = FALSE,
                                !.last = "settle", !.cause = r.error]
       /\ UNCHANGED <<gallery, layout, grid, photoSet, api, twins>>

\* the route is left
DetailUnmount ==
  /\ detail.status = "mounted"
  /\ detail' = [detail EXCEPT !.status = "unmounted", !.last = "unmount"]
  /\ UNCHANGED <<gallery, layout, grid, photoSet, api, twins>>

NextDetail ==
  \/ DetailLoad
  \/ DetailSettle
  \/ DetailUnmount

SpecDetail == InitDetail /\ [][NextDetail]_vars

\* the promise of fetchPhotoById settles
SpecDetailLive == InitDetail /\ [][NextDetail]_vars /\ WF_vars(DetailSettle)

\* ---- the gallery over the list-backed source ------------------------------

InitList ==
  /\ GalleryInit
  /\ layout = NoLayout
  /\ grid = NoGrid
  /\ api = NoApi
  /\ detail = NoDetail
  /\ twins = NoTwins
  /\ photoSet \in PhotoSets

\* /photo_set.json delivered
StoredList == Response(TRUE, TRUE, ListValue(photoSet))

\* fetchPhotos(currentPage, 80) resolves with the page fetchPhotosFromList cuts
FetchResolveList ==
  \E f \in inflight :
    LET page == fetchPhotosFromList(f.page, PerPage, StoredList).value
    IN ResolveWith(f, [photos |-> page.photos, next_page |-> page.next_page])

NextList ==
  \/ DirectLoad
  \/ FetchResolveList
  \/ FetchReject
  \/ Intersect
  \/ TimerFire
  \/ Render
  \/ Unmount

SpecList == InitList /\ [][NextList]_vars

\* ---- PhotoGrid: the columns memo over the hook's column count -------------

\* const gap = 16; // 1rem in pixels
GridGap == 16

\* the root font size of a browser left at its default, in px
GridRem == 16

\* a square photo and a tall one
GridShapes == {[width |-> 1, height |-> 1], [width |-> 1, height |-> 2]}

\* the memo's function: containerWidth = offsetWidth || 0,
\* columnWidth = (containerWidth - gap * (columnCount - 1)) / columnCount.
\* Heights are kept in units of 1/columnCount pixel, so the division is exact:
\* every height of the call is multiplied by columnCount.
MemoColumns(photos, columnCount, containerWidth) ==
  distributePhotosGreedy(photos, columnCount,
                         containerWidth - GridGap * (columnCount - 1),
                         GridGap * columnCount)

MemoDepsPhotosOnly(rev, columnCount) == <<rev, 0>>

\* useMemo(..., [photos, columnCount]): photos compared by identity
MemoDeps(rev, columnCount) == <<rev, columnCount>>

\* the memo after a render with the array photos (identity rev): recomputed
\* when a dependency changed, kept otherwise
Memo(photos, rev, op) ==
  LET deps == MemoDeps(rev, grid.columnCount)
      out == MemoColumns(photos, grid.columnCount, OffsetWidth(grid))
  IN IF deps = layout.deps
     THEN [layout EXCEPT !.last = op]
     ELSE [status |-> "memo", photos |-> photos, rev |-> rev,
           columnCount |-> grid.columnCount, deps |-> deps,
           columns |-> out.columns, outcome |-> out.status, last |-> op]

\* the first render: the ref is not attached yet, the count is useState(1)
FirstMemo ==
  [status |-> "memo", photos |-> <<>>, rev |-> 0,
   columnCount |-> InitialColumns("hook"),
   deps |-> MemoDeps(0, InitialColumns("hook")),
   columns |-> MemoColumns(<<>>, InitialColumns("hook"), 0).columns,
   outcome |-> "returned", last |-> "mount"]

InitGrid ==
  /\ GalleryInit
  /\ variant = "debounce"
  /\ NoServices
  /\ grid \in [status : {"rendered"}, variant : {"hook"}, remSize : {GridRem},
               width : Widths, columnCount : {InitialColumns("hook")}, frames : {0},
               notify : {FALSE}, returned : {0}, last : {"render"}]
  /\ layout = FirstMemo

\* Home renders PhotoGrid with a new photos array: a photo appended, or the
\* array replaced (a reset) by one with the same photos or by an empty one
PhotosChange ==
  \E sh \in GridShapes, kind \in {"append", "same", "empty"} :
    /\ grid.status \in {"rendered", "observing"}
    /\ layout.rev < MaxRevs
    /\ kind = "append" => Len(layout.photos) < MaxGridPhotos
    /\ LET photos == IF kind = "append"
                     THEN Append(layout.photos,
                                 [id |-> Len(layout.photos) + 1,
                                  width |-> sh.width, height |-> sh.height])
                     ELSE IF kind = "same" THEN layout.photos ELSE <<>>
       IN layout' = Memo(photos, layout.rev + 1, "photos")
    /\ UNCHANGED <<gallery, grid, services>>

\* PhotoGrid renders again with the same photos array: after setColumnCount
\* changed the count, or because Home rendered
RenderGrid ==
  /\ grid.status \in {"rendered", "observing"}
  /\ layout' = Memo(layout.photos, layout.rev,
                    IF grid.columnCount # layout.columnCount THEN "count" ELSE "render")
  /\ layout' # layout
  /\ UNCHANGED <<gallery, grid, services>>

NextGrid ==
  \/ GridEffect
  \/ Resize
  \/ ResizeCallback
  \/ Frame
  \/ GridUnmount
  \/ PhotosChange
  \/ RenderGrid

SpecGrid == InitGrid /\ [][NextGrid]_vars

\* ---- two galleries side by side -----------------------------------------
\* One gallery wired to the debounced useInfiniteScroll and one wired to the
\* immediate one, each with its own Home.loadPhotos, are fed the same events:
\* the same intersection entries, the same passage of time, the same
\* outcomes of the fetch in flight, re-renders and unmounts together.  The
\* handlers are the ones above, written as functions of one gallery's state.
\* The data source serves page p as the one photo p.

PageOf(p) == <<p>>

InitialTwin(v) ==
  [variant |-> v,
   cur |-> [photos |-> <<>>, page |-> FirstPage, hasMore |-> TRUE],
   view |-> [photos |-> <<>>, page |-> FirstPage, hasMore |-> TRUE],
   loadingRef |-> FALSE, inflight |-> {}, calls |-> 0,
   observer |-> [active |-> TRUE, page |-> FirstPage],
   isLoadingRef |-> FALSE, timer |-> NoTimer, mounted |-> TRUE]

\* loadPhotos(reset) through a callback that captured `page`
TwinLoad(g, reset, page, trig) ==
  IF g.loadingRef THEN g
  ELSE [g EXCEPT !.loadingRef = TRUE,
                 !.inflight = @ \cup {[id |-> g.calls + 1,
                                       page |-> CurrentPage(reset, page),
                                       reset |-> reset, trig |-> trig]},
                 !.calls = @ + 1]

\* const potentialPromise = callback() and the finally handler on it
TwinInvoke(g, page) ==
  [TwinLoad(g, FALSE, page, TRUE) EXCEPT !.isLoadingRef = ~g.loadingRef]

\* the IntersectionObserver callback of either variant
TwinIntersect(g, isIntersecting) ==
  IF ~(g.mounted /\ g.observer.active) THEN g
  ELSE IF ~(isIntersecting /\ ~g.isLoadingRef) THEN g
  ELSE IF g.variant = "debounce"
       THEN [g EXCEPT !.isLoadingRef = TRUE,
                      !.timer = [pending |-> TRUE, page |-> g.observer.page, gen |-> 0]]
       ELSE TwinInvoke(g, g.observer.page)

\* 200 ms pass: the window.setTimeout callback, where one is pending
TwinTimeout(g) ==
  IF g.timer.pending
  THEN [TwinInvoke(g, g.timer.page) EXCEPT !.timer = NoTimer]
  ELSE g

\* the fetch in flight settles: the continuation of loadPhotos after the await
TwinSettle(g, ok, next_page) ==
  IF g.inflight = {} THEN g
  ELSE LET f == CHOOSE f \in g.inflight : \A h \in g.inflight : f.id <= h.id
       IN [g EXCEPT
             !.cur = IF ok
                     THEN [photos |-> MergePhotos(@.photos, f.reset, PageOf(f.page)),
                           page |-> NextCursor(f.page),
                           hasMore |-> HasMoreOf(next_page)]
                     ELSE @,
             !.loadingRef = FlagAfterSettle,
             !.inflight = @ \ {f},
             !.isLoadingRef = IF f.trig THEN FALSE ELSE @]

\* a re-render with its effects: the observer is replaced when the callback
\* or hasMore changed
TwinRender(g) ==
  IF ~g.mounted \/ g.view = g.cur THEN g
  ELSE LET deps == g.cur.page # g.view.page \/ g.cur.hasMore # g.view.hasMore
           clean == deps /\ g.observer.active
       IN [g EXCEPT !.view = g.cur,
                    !.observer = IF deps THEN SetupObserver(g.cur) ELSE @,
                    !.timer = IF clean THEN CleanupTimer ELSE @,
                    !.isLoadingRef = IF clean THEN CleanupBusy ELSE @]

\* the unmount: the effect's cleanup
TwinUnmount(g) ==
  IF ~g.mounted THEN g
  ELSE [g EXCEPT !.mounted = FALSE,
                 !.observer = NoObserver,
                 !.timer = IF g.observer.active THEN CleanupTimer ELSE @,
                 !.isLoadingRef = IF g.observer.active THEN CleanupBusy ELSE @]

InitTwins ==
  /\ GalleryInit
  /\ variant = "debounce"
  /\ layout = NoLayout
  /\ grid = NoGrid
  /\ photoSet = <<>>
  /\ api = NoApi
  /\ detail = NoDetail
  /\ twins = [status |-> "mounted", last |-> "mount",
              deb |-> InitialTwin("debounce"), imm |-> InitialTwin("immediate")]

\* both galleries take the step, to the states deb and imm; a step that
\* changes neither is no event
Both(op, deb, imm) ==
  /\ twins' = [twins EXCEPT !.last = op, !.deb = deb, !.imm = imm]
  /\ twins' # [twins EXCEPT !.last = op]
  /\ UNCHANGED <<gallery, layout, grid, photoSet, api, detail>>

\* neither gallery has used up its fetch budget
TwinBudget == twins.deb.calls < MaxFetches /\ twins.imm.calls < MaxFetches

TwinsIntersect ==
  \E isIntersecting \in BOOLEAN :
    /\ TwinBudget
    /\ Both("intersect", TwinIntersect(twins.deb, isIntersecting),
            TwinIntersect(twins.imm, isIntersecting))

TwinsTimeout ==
  /\ TwinBudget
  /\ Both("timeout", TwinTimeout(twins.deb), TwinTimeout(twins.imm))

TwinsResolve ==
  \E next_page \in NextPageVals :
    /\ twins.status = "mounted"
    /\ Both("resolve", TwinSettle(twins.deb, TRUE, next_page),
            TwinSettle(twins.imm, TRUE, next_page))

TwinsReject ==
  /\ twins.status = "mounted"
  /\ Both("reject", TwinSettle(twins.deb, FALSE, "undefined"),
          TwinSettle(twins.imm, FALSE, "undefined"))

TwinsRender ==
  /\ twins.status = "mounted"
  /\ Both("render", TwinRender(twins.deb), TwinRender(twins.imm))

TwinsUnmount ==
  /\ twins.status = "mounted"
  /\ Both("unmount", TwinUnmount(twins.deb), TwinUnmount(twins.imm))

NextTwins ==
  \/ TwinsIntersect
  \/ TwinsTimeout
  \/ TwinsResolve
  \/ TwinsReject
  \/ TwinsRender
  \/ TwinsUnmount

SpecTwins == InitTwins /\ [][NextTwins]_vars

\* ---- claims -------------------------------------------------------------

\* a step in which loadPhotos was called
LoadCalled == last'.op = "load"
\* a step in which a fetchPhotos promise resolved / rejected
Resolved == last'.op = "resolve"
Rejected == last'.op = "reject"
\* the fetch started in this step
Started == inflight' \ inflight

\* C1: a loadPhotos call made while a previous call's fetch is unresolved is
\* a no-op: no second fetch is issued and the collection, cursor, has-more
\* flag, loading flag and error are unchanged.
C1_GuardedCallIsNoOp ==
  [][(LoadCalled /\ loadingRef) => (last'.ignored /\ UNCHANGED ctl)]_vars

C1_Witness ==
  /\ last.op = "load" /\ last.ignored /\ last.via = "direct"
  /\ Len(fetchLog) = 1 /\ Cardinality(inflight) = 1 /\ loadingRef

\* C2: in every reachable state at most one fetch is in flight.
C2_AtMostOneInFlight == Cardinality(inflight) <= 1

C2_Witness ==
  /\ Cardinality(inflight) = 1
  /\ last.op = "load" /\ last.ignored /\ last.via = "trigger"

\* C3: when a fetch fails, the in-flight flag is cleared, the error state is
\* set, and the collection and the cursor are what they were before.
C3_FailureKeepsCollectionAndCursor ==
  [][Rejected =>
       /\ ~loadingRef'
       /\ cur'.error # NoError
       /\ cur'.photos = cur.photos
       /\ cur'.page = cur.page]_vars

C3_Witness ==
  /\ last.op = "reject" /\ ~last.reset
  /\ cur.error # NoError /\ ~loadingRef
  /\ cur.photos # <<>> /\ cur.page = last.page /\ cur.page > FirstPage

\* C4: when a non-reset fetch of page p succeeds, the collection becomes the
\* old collection followed by the returned photos in order, the cursor
\* becomes p + 1, has-more becomes whether the response names a next page,
\* and the in-flight flag is cleared.
C4_SuccessAppends ==
  [][(Resolved /\ ~last'.reset) =>
       /\ cur'.photos = cur.photos \o last'.photos
       /\ cur'.page = last'.page + 1
       /\ cur'.hasMore = (last'.next_page \notin {"undefined", ""})
       /\ ~loadingRef']_vars

C4_Witness ==
  /\ last.op = "resolve" /\ ~last.reset
  /\ Len(last.photos) = 1 /\ Len(cur.photos) = 2
  /\ cur.photos[1] # cur.photos[2] /\ cur.photos[2] = last.photos[1]
  /\ cur.page = last.page + 1 /\ ~cur.hasMore /\ ~loadingRef

\* C5: loadPhotos(true) fetches page 1 whatever the cursor is, and when that
\* fetch succeeds the collection is exactly the returned page (the prior
\* photos are discarded) and the cursor is 2.
C5_ResetFetchesFirstPage ==
  [][/\ (LoadCalled /\ last'.reset /\ ~loadingRef) =>
          /\ fetchLog' = Append(fetchLog, FirstPage)
          /\ \A f \in Started : f.page = FirstPage /\ f.reset
     /\ (Resolved /\ last'.reset) =>
          /\ cur'.photos = last'.photos
          /\ cur'.page = FirstPage + 1]_vars

C5_Witness ==
  /\ last.op = "resolve" /\ last.reset
  /\ view.page > FirstPage /\ view.photos # <<>>
  /\ cur.photos = last.photos /\ cur.photos # view.photos
  /\ fetchLog[Len(fetchLog)] = FirstPage

\* C6: the cursor starts at 1, and a non-reset loadPhotos call that is not
\* guarded requests the page equal to the current cursor: after page 1 has
\* been fetched successfully the next call fetches page 2, not page 1.
C6_CallRequestsCursor ==
  /\ (last.op = "mount" => cur.page = FirstPage)
  /\ [][(LoadCalled /\ ~last'.reset /\ ~loadingRef) =>
          fetchLog' = Append(fetchLog, cur.page)]_vars

\* C7: once a response has signalled that there is no further page, no
\* further fetch is dispatched.
C7_NoFetchAfterLastPage ==
  [][~cur.hasMore => fetchLog' = fetchLog]_vars

\* C8: loadingRef is true in exactly the states in which a fetch has been
\* started and has not completed.
C8_FlagIffInFlight == loadingRef <=> inflight # {}

C8_Witness ==
  /\ last.op = "reject" /\ last.via = "trigger"
  /\ ~loadingRef /\ inflight = {} /\ Len(fetchLog) >= 2

\* C9: after a fetch fails no fetch is issued until loadPhotos is called
\* again, and the next non-reset call requests the page of the failed
\* (non-reset) fetch.
C9_RetryRequestsFailedPage ==
  [][/\ fetchLog' # fetchLog => LoadCalled
     /\ (last.op = "reject" /\ ~last.reset /\ LoadCalled /\ ~last'.reset) =>
          fetchLog' = Append(fetchLog, last.page)]_vars

\* the trigger's callback returned a promise that has not settled
TriggerPending == \E f \in inflight : f.trig

\* C10: while the promise of a previous callback invocation is pending, the
\* Visibility Trigger does not invoke its callback.
C10_NoInvocationWhilePending ==
  [][TriggerPending => ~(LoadCalled /\ last'.via = "trigger")]_vars

\* C11: a torn-down observation never invokes its callback again: a pending
\* debounce timer always belongs to the live observer of a mounted gallery,
\* and every invocation by the trigger goes through the live observer's
\* callback.
C11_NoCallbackAfterTeardown ==
  /\ [](timer.pending => (mounted /\ observer.active /\ timer.gen = gen
                             /\ timer.page = observer.page))
  /\ [][(LoadCalled /\ last'.via = "trigger") =>
          (mounted /\ observer.active /\ last'.page = observer.page)]_vars

\* a callback change tore the observation down while its timer was pending
C11_Witness ==
  /\ variant = "debounce" /\ last.op = "render" /\ last.via = "timer"
  /\ gen > 1 /\ ~timer.pending /\ ~isLoadingRef
  /\ observer.active /\ observer.page > FirstPage

\* C12: a fetch that completes after the gallery was unmounted does not
\* change the collection, cursor, has-more, loading or error state.
C12_NoMutationAfterUnmount ==
  [][(~mounted /\ (Resolved \/ Rejected)) => cur' = cur]_vars

\* ---- claims about distributePhotosGreedy --------------------------------

\* the call has ended
Finished == layout.status \in {"returned", "TypeError"}
Returned == layout.status = "returned"

\* the Photo invariant: width and height are strictly positive
Sound(photos) ==
  \A i \in 1 .. Len(photos) : photos[i].width > 0 /\ photos[i].height > 0

\* the places of input photo i in the returned columns
Places(i) ==
  {cj \in (1 .. Len(layout.columns)) \X (1 .. Len(layout.photos)) :
     /\ cj[2] <= Len(layout.columns[cj[1]])
     /\ layout.columns[cj[1]][cj[2]] = layout.photos[i]}

RECURSIVE TotalLen(_, _)
TotalLen(columns, n) ==
  IF n = 0 THEN 0 ELSE Len(columns[n]) + TotalLen(columns, n - 1)

Partitioned ==
  /\ Len(layout.columns) = layout.columnCount
  /\ \A i \in 1 .. Len(layout.photos) : Cardinality(Places(i)) = 1
  /\ TotalLen(layout.columns, Len(layout.columns)) = Len(layout.photos)

\* C13: for every collection of photos (positive width and height) and every
\* column count N >= 1 the call returns N columns in which every input photo
\* appears exactly once, and the item count is the input length; whatever
\* the input, columns that are returned partition it.
C13_ColumnsPartitionInput ==
  /\ (Finished /\ Sound(layout.photos)) => Returned
  /\ Returned => Partitioned

C13_Witness ==
  /\ Returned /\ Sound(layout.photos)
  /\ Len(layout.photos) = 3 /\ layout.columnCount = 2
  /\ Len(layout.columns[1]) = 2 /\ Len(layout.columns[2]) = 1

\* the rendered height of a sound photo, in 1/Scale pixels
HeightOf(p) ==
  layout.columnWidth * p.height * (Scale \div p.width) + layout.gap * Scale

\* the accumulated height of column c over the photos that precede photo k
RECURSIVE HeightUpTo(_, _, _)
HeightUpTo(column, n, k) ==
  IF n = 0 THEN layout.gap * Scale
  ELSE HeightUpTo(column, n - 1, k)
         + (IF column[n].id < k THEN HeightOf(column[n]) ELSE 0)

HeightBefore(c, k) == HeightUpTo(layout.columns[c], Len(layout.columns[c]), k)

ColumnOf(k) ==
  CHOOSE c \in 1 .. Len(layout.columns) :
    \E j \in 1 .. Len(layout.columns[c]) : layout.columns[c][j].id = k

\* C14: photos are placed in input order, each in the column whose
\* accumulated height (the gap, plus columnWidth / (width / height) + gap
\* for each photo placed before) is smallest, the lowest index on a tie.
C14_PlacedInShortestColumn ==
  (Finished /\ Sound(layout.photos)) =>
    /\ Returned
    /\ \A k \in 1 .. Len(layout.photos) :
         \A j \in 1 .. layout.columnCount :
           /\ HeightBefore(ColumnOf(k), k) <= HeightBefore(j, k)
           /\ j < ColumnOf(k) => HeightBefore(ColumnOf(k), k) < HeightBefore(j, k)
    /\ \A c \in 1 .. layout.columnCount :
         layout.columnHeights[c] = Fin(HeightBefore(c, Len(layout.photos) + 1))

\* the third photo joins the second one, in the column the short photo left lower
C14_Witness ==
  /\ Returned /\ Sound(layout.photos) /\ layout.columnWidth = 100
  /\ Len(layout.photos) = 3 /\ layout.columnCount = 2
  /\ Len(layout.columns[1]) = 1 /\ Len(layout.columns[2]) = 2
  /\ layout.columns[2][2].id = 3

\* the largest rendered height of a single input photo, 0 for no photo
MaxRendered ==
  IF layout.photos = <<>> THEN Fin(0)
  ELSE LET rh(i) == RenderedHeight(layout.photos[i], layout.columnWidth, layout.gap)
       IN rh(CHOOSE i \in 1 .. Len(layout.photos) :
               \A j \in 1 .. Len(layout.photos) : Leq(rh(j), rh(i)))

NoNaN ==
  /\ \A c \in 1 .. Len(layout.columnHeights) : layout.columnHeights[c].k # "nan"
  /\ \A i \in 1 .. Len(layout.photos) :
       RenderedHeight(layout.photos[i], layout.columnWidth, layout.gap).k # "nan"

\* C15: for all inputs, no column's final accumulated height exceeds
\* another's by more than the largest rendered height of a single photo.
C15_HeightsBalanced ==
  Finished =>
    /\ Returned
    /\ NoNaN
    /\ \A c, j \in 1 .. layout.columnCount :
         Leq(layout.columnHeights[c], Plus(layout.columnHeights[j], MaxRendered))

SameRenderedHeight ==
  \A i, j \in 1 .. Len(layout.photos) :
    StrictEq(RenderedHeight(layout.photos[i], layout.columnWidth, layout.gap),
             RenderedHeight(layout.photos[j], layout.columnWidth, layout.gap))

\* C16: when all photos have the same rendered height, the photo at 0-based
\* input position i is in column i mod N, the result of the modulo variant
\* (5 photos into 2 columns: photos 1, 3, 5 and photos 2, 4).
C16_EqualHeightsRoundRobin ==
  (Finished /\ SameRenderedHeight) =>
    /\ Returned
    /\ layout.columns = distributeModulo(layout.photos, layout.columnCount)

\* C17: every returned column lists its photos in the order of assignment:
\* it is a subsequence of the input.
C17_ColumnsKeepInputOrder ==
  Returned =>
    \A c \in 1 .. Len(layout.columns) :
      /\ \A j \in 1 .. Len(layout.columns[c]) :
           /\ layout.columns[c][j].id \in 1 .. Len(layout.photos)
           /\ layout.columns[c][j] = layout.photos[layout.columns[c][j].id]
      /\ \A i, j \in 1 .. Len(layout.columns[c]) :
           i < j => layout.columns[c][i].id < layout.columns[c][j].id

C17_Witness ==
  /\ Returned /\ layout.columnCount = 2 /\ Len(layout.photos) = 5
  /\ Len(layout.columns[1]) = 3 /\ Len(layout.columns[2]) = 2
  /\ layout.columns[1][2].id = 3 /\ layout.columns[2][2].id = 4

\* C18: for an empty collection and any column count N >= 1 the call returns
\* exactly N empty columns.
C18_EmptyInputEmptyColumns ==
  (Finished /\ layout.photos = <<>>) =>
    /\ Returned
    /\ Len(layout.columns) = layout.columnCount
    /\ \A c \in 1 .. Len(layout.columns) : layout.columns[c] = <<>>

C18_Witness ==
  /\ Returned /\ layout.photos = <<>> /\ layout.columnCount = MaxColumns
  /\ Len(layout.columns) = MaxColumns /\ layout.columns[MaxColumns] = <<>>

\* C19: for photos with a zero or negative side and for a zero or negative
\* column width the call still completes, every photo is in one column
\* 0..N-1, and no accumulated height is infinite or NaN: each rendered
\* height is clamped to a positive value before it is added.
C19_DegenerateGeometrySafe ==
  Finished =>
    /\ Returned
    /\ Partitioned
    /\ \A c \in 1 .. Len(layout.columnHeights) :
         /\ layout.columnHeights[c].k = "fin"
         /\ layout.columnHeights[c].v >= layout.gap * Scale
         /\ layout.columns[c] # <<>> => layout.columnHeights[c].v > layout.gap * Scale

\* ---- claims about the column count ---------------------------------------

\* C20: for every container width calculateColumns returns an integer in
\* [1, 4], and the column count state of the hook is in [1, 4] in every
\* reachable state.
C20_ColumnCountInRange ==
  grid.status # "idle" =>
    /\ grid.columnCount \in 1 .. MaxColumnCap
    /\ grid.returned # 0 => grid.returned \in 1 .. MaxColumnCap
    /\ \A w \in Widths : calculateColumns(w, grid.remSize) \in 1 .. MaxColumnCap

\* a frame has set the count to the cap for a width that fits five columns
C20_Witness ==
  /\ grid.status = "observing" /\ grid.variant = "hook" /\ grid.last = "frame"
  /\ grid.columnCount = MaxColumnCap /\ grid.returned = MaxColumnCap
  /\ (grid.width - ContainerPadding) \div (MinColumnRem * grid.remSize) > MaxColumnCap

\* a step in which calculateColumns ran
ColumnsCalculated ==
  \/ grid'.last = "frame"
  \/ grid'.last = "callback" /\ grid'.variant = "inline"
  \/ grid'.last = "effect" /\ grid'.variant = "hook"

\* the width calculateColumns read in the step
WidthRead == OffsetWidth(grid')

\* C21: for fixed constants calculateColumns is monotonic non-decreasing in
\* the width: no smaller width gives a larger count than the one a
\* calculation returned, no larger width a smaller one.
C21_MonotonicInWidth ==
  [][ColumnsCalculated =>
       \A w \in Widths :
         /\ w <= WidthRead => calculateColumns(w, grid.remSize) <= grid'.returned
         /\ w >= WidthRead => calculateColumns(w, grid.remSize) >= grid'.returned]_vars

\* a frame returned a count with smaller counts below and larger ones above
C21_Witness ==
  /\ grid.status = "observing" /\ grid.variant = "hook" /\ grid.last = "frame"
  /\ grid.returned = 2 /\ grid.columnCount = 2
  /\ \E w \in Widths : w < grid.width /\ calculateColumns(w, grid.remSize) = 1
  /\ \E w \in Widths : w > grid.width /\ calculateColumns(w, grid.remSize) = MaxColumnCap

\* floor(n / d) for d > 0, by its defining inequality
FloorDiv(n, d) ==
  CHOOSE q \in -MaxColumnCap .. 3 * MaxColumnCap : q * d <= n /\ n < (q + 1) * d

Clamp(x, lo, hi) == IF x < lo THEN lo ELSE IF x > hi THEN hi ELSE x

ClampedColumns(w, remSize) ==
  Clamp(FloorDiv(w - ContainerPadding, MinColumnRem * remSize), 1, MaxColumnCap)

\* widths below zero: no offsetWidth, but arguments of the calculation
NegativeWidths == {-100, -ContainerPadding, -1}

\* C22: calculateColumns is clamp(floor((width - 16) / (18 * remSize)), 1, 4)
\* for every width; a width of 0, a negative width and a width that does not
\* fit one column give exactly 1.
C22_ClampedFloor ==
  /\ [][ColumnsCalculated =>
          /\ grid'.returned = ClampedColumns(WidthRead, grid.remSize)
          /\ grid'.columnCount = grid'.returned
          /\ WidthRead < MinColumnRem * grid.remSize + ContainerPadding
               => grid'.returned = 1]_vars
  /\ [](grid.status # "idle" =>
          \A w \in Widths \cup NegativeWidths :
            /\ calculateColumns(w, grid.remSize) = ClampedColumns(w, grid.remSize)
            /\ w < MinColumnRem * grid.remSize + ContainerPadding
                 => calculateColumns(w, grid.remSize) = 1)

\* the resize callback of the inline effect lowered the initial 2 to 1 for width 0
C22_Witness ==
  /\ grid.status = "observing" /\ grid.variant = "inline" /\ grid.last = "callback"
  /\ grid.width = 0 /\ grid.returned = 1 /\ grid.columnCount = 1

\* ---- claims about the photo collection ------------------------------------

IsPrefix(a, b) == Len(a) <= Len(b) /\ SubSeq(b, 1, Len(a)) = a

\* C23: the photo collection is append-only: across every step that is not
\* the success of a reset fetch the old collection is a prefix of the new one.
C23_CollectionAppendOnly ==
  [][~(Resolved /\ last'.reset) => IsPrefix(cur.photos, cur'.photos)]_vars

\* the third page has been appended to the two before it
C23_Witness ==
  /\ last.op = "resolve" /\ ~last.reset
  /\ Len(cur.photos) = 3 /\ Len(last.photos) = 1
  /\ cur.photos[3] = last.photos[1] /\ cur.photos[1] # cur.photos[2]

NoDuplicates(photos) ==
  \A i, j \in 1 .. Len(photos) : i # j => photos[i] # photos[j]

\* C24: in every reachable state no photo id occurs twice in the loaded
\* collection, for any sequence of successful page loads from the data source.
C24_IdentifiersUnique == NoDuplicates(cur.photos)

\* ---- claims about the grid's column assignment ----------------------------

\* a render of PhotoGrid that saw a new photos array or a new column count
InputsChanged == layout' # layout /\ layout'.last \in {"photos", "count"}

RECURSIVE ItemCount(_, _)
ItemCount(columns, n) ==
  IF n = 0 THEN 0 ELSE Len(columns[n]) + ItemCount(columns, n - 1)

\* C25: after every change of the photo collection or of the column count
\* the exposed assignment is recomputed from scratch: it has exactly
\* columnCount columns and is distributePhotosGreedy of the full current
\* collection at the current column count.
C25_AssignmentRecomputed ==
  [][InputsChanged =>
       /\ layout'.outcome = "returned"
       /\ layout'.columnCount = grid'.columnCount
       /\ Len(layout'.columns) = grid'.columnCount
       /\ ItemCount(layout'.columns, Len(layout'.columns)) = Len(layout'.photos)
       /\ layout'.columns =
            distributePhotosGreedy(layout'.photos, grid'.columnCount,
                                   OffsetWidth(grid') - GridGap * (grid'.columnCount - 1),
                                   GridGap * grid'.columnCount).columns]_vars

\* two photos redistributed into two columns after the count went from 1 to 2
C25_Witness ==
  /\ layout.status = "memo" /\ layout.last = "count"
  /\ layout.columnCount = 2 /\ Len(layout.photos) = 2
  /\ Len(layout.columns) = 2
  /\ Len(layout.columns[1]) = 1 /\ Len(layout.columns[2]) = 1

\* a step of the resize path: the width changes, the observer's callback, the
\* animation frame, and the render that follows a change of the count
ResizeStep ==
  \/ grid'.last \in {"resize", "callback", "frame"} /\ grid' # grid
  \/ layout' # layout /\ layout'.last = "count"

\* C26: a container width change only recomputes the column count and re-runs
\* the distribution over the photos already loaded: no step of the resize
\* path starts a fetch or changes the collection, the cursor, the has-more
\* flag or the in-flight flag.
C26_ResizeOnlyRedistributes ==
  [][ResizeStep =>
       /\ UNCHANGED <<cur, view, loadingRef, inflight, fetchLog>>
       /\ layout'.photos = layout.photos
       /\ layout'.rev = layout.rev
       /\ ItemCount(layout'.columns, Len(layout'.columns)) = Len(layout.photos)]_vars

\* a frame raised the count to the cap and the two photos were redistributed
C26_Witness ==
  /\ layout.status = "memo" /\ layout.last = "count" /\ grid.last = "frame"
  /\ layout.columnCount = MaxColumnCap /\ Len(layout.columns) = MaxColumnCap
  /\ Len(layout.photos) = 2 /\ fetchLog = <<>> /\ ~loadingRef

\* ---- claims about the visibility trigger, continued -----------------------

\* the fetch budget of the behaviour is not used up
Budget == Len(fetchLog) < MaxFetches

\* C27: while the trigger is enabled (hasMore true at its render) and not
\* busy, a visibility event leads to the callback being invoked: at once in
\* the immediate variant, by the 200 ms timer in the debounce variant unless
\* the trigger is torn down first; a trigger that is disabled never invokes
\* the callback.
C27_VisibleLeadsToCallback ==
  /\ [][/\ (last'.op = "intersect" /\ last'.ignored /\ last'.via = "visible")
             => isLoadingRef
        /\ (last'.op = "intersect" /\ ~last'.ignored)
             => (variant = "debounce" /\ timer'.pending /\ timer'.page = observer.page)
        /\ (timer.pending /\ ~timer'.pending)
             => \/ LoadCalled /\ last'.via = "trigger" /\ last'.page = timer.page
                \/ last'.op \in {"render", "unmount"} /\ last'.via = "timer"
        /\ (LoadCalled /\ last'.via = "trigger")
             => (mounted /\ observer.active /\ view.hasMore)]_vars
  /\ (timer.pending /\ Budget) ~> (~timer.pending \/ ~Budget)

\* the timer of an accepted event has invoked the callback, which fetches page 2
C27_Witness ==
  /\ variant = "debounce" /\ last.op = "load" /\ last.via = "trigger"
  /\ ~last.ignored /\ last.page = FirstPage + 1
  /\ ~timer.pending /\ isLoadingRef /\ loadingRef /\ view.hasMore

\* ---- claims about the data source ------------------------------------------

ApiSettled == api.status = "settled"

\* the underlying request did not succeed: no response, or an error status
RequestFailed == api.transport.kind = "network" \/ ~api.transport.ok

\* C29: fetchPhotos fails whenever the underlying request does not succeed,
\* whichever source it dispatches to (Pexels, the stored list, the local
\* file); it never resolves with a page then.
C29_FailedRequestRejects ==
  (ApiSettled /\ api.fn = "fetchPhotos" /\ RequestFailed) =>
    api.result.outcome = "rejected"

\* the transport delivered a JSON body with a success status
RequestServed ==
  api.transport.kind = "response" /\ api.transport.ok /\ api.transport.json

NotFound == detail.last = "settle" /\ detail.cause = "Error: Photo with ID not found"

\* the transport failed: no response, or an error status
TransportFailed ==
  detail.last = "settle"
    /\ detail.cause \in {"TypeError: Failed to fetch", "Error: Failed to fetch photo"}

\* what the page shows after a transport failure
RetryScreen == [view |-> "Error", message |-> FailedMessage, id |-> 0]

\* C28: in the detail view a lookup that matches no record is surfaced
\* distinctly from a transport failure: "not found" in the one case, a
\* retryable error in the other.
C28_NotFoundDistinct ==
  /\ TransportFailed => Screen(detail) = RetryScreen
  /\ NotFound =>
       /\ Screen(detail) # RetryScreen
       /\ Screen(detail).message = NotFoundMessage

\* ---- claims about scheduling ------------------------------------------------

\* the animation-frame callbacks requested and not yet run all run in the
\* next rendering frame, and each of them recomputes the column count
RecomputationsNextFrame == IF grid.status = "idle" THEN 0 ELSE grid.frames

\* the debounced trigger dispatches only by its one timeout, and sets a
\* timeout only when none is pending
DispatchByOneTimer ==
  [][/\ (variant = "debounce" /\ LoadCalled /\ last'.via = "trigger")
          => (timer.pending /\ ~timer'.pending)
     /\ (timer'.pending /\ timer' # timer) => ~timer.pending]_vars

\* C31: the resolver's resize-driven recomputation and the trigger's
\* callback dispatch are each coalesced to at most one per rendering frame,
\* however many resize or visibility notifications arrive within the frame.
C31_CoalescedPerFrame ==
  /\ [](RecomputationsNextFrame <= 1)
  /\ DispatchByOneTimer

\* ---- claims about the two trigger variants ----------------------------------

\* the pages merged so far
Merged(g) == g.cur.photos

\* C32: the trigger that dispatches at once and the trigger that dispatches
\* after the 200 ms delay, composed with the same loadPhotos and fed the same
\* events, both keep at most one fetch in flight and merge the same sequence
\* of pages: the pages one of them has merged are always the first pages the
\* other has merged or will merge.
C32_VariantsMergeSamePages ==
  twins.status = "mounted" =>
    /\ Cardinality(twins.deb.inflight) <= 1
    /\ Cardinality(twins.imm.inflight) <= 1
    /\ IsPrefix(Merged(twins.deb), Merged(twins.imm))
         \/ IsPrefix(Merged(twins.imm), Merged(twins.deb))

\* ---- claims about the pagination controller, continued ----------------------

\* C33: no page is merged twice without a reset: the pages of the non-reset
\* fetches that are merged are consecutive, each one the page the cursor
\* stands at when it is merged, whatever the interleaving of visibility
\* events, fetch completions and re-renders.
C33_NoPageMergedTwice ==
  [][(Resolved /\ ~last'.reset) => last'.page = cur.page]_vars

\* ---- claims about the resolver's teardown ------------------------------------

\* C34: after the resolver is torn down (observer disconnected on unmount)
\* no further column count is set or reported, not even by an animation
\* frame that a resize notification requested before the teardown.
C34_NoUpdateAfterTeardown ==
  [][grid.status = "unmounted" =>
       /\ grid'.columnCount = grid.columnCount
       /\ grid'.returned = grid.returned
       /\ grid'.last # "frame"]_vars

\* ---- claims about the list-backed source --------------------------------------

\* n photos of the list taken cyclically, the first at 0-based index start
CyclicSlice(photos, start, n) ==
  [i \in 1 .. n |-> photos[((start + i - 1) % Len(photos)) + 1]]

\* fetchPhotos was dispatched to the stored list, which was delivered
ListPageServed ==
  /\ ApiSettled /\ api.fn = "fetchPhotos" /\ api.backend = "list"
  /\ RequestServed /\ api.transport.value = ListValue(photoSet)

\* C35: over a stored list of length L > 0, fetchPhotosFromList(page, perPage)
\* returns exactly perPage photos: the cyclic slice of the list that starts
\* at index ((page - 1) * perPage) mod L and wraps back to the start of the
\* list when the end is reached.
C35_ListPageIsCyclicSlice ==
  (ListPageServed /\ Len(photoSet) > 0) =>
    /\ api.result.outcome = "resolved"
    /\ Len(api.result.value.photos) = api.perPage
    /\ api.result.value.photos =
         CyclicSlice(photoSet, ((api.page - 1) * api.perPage) % Len(photoSet),
                     api.perPage)

\* C36: every response of fetchPhotosFromList carries next_page = page + 1,
\* so with the list-backed source the has-more flag is true after every
\* successful load and the state in which loading stops is never reached.
C36_ListSourceNeverEnds ==
  /\ [](cur.hasMore /\ view.hasMore)
  /\ [][Resolved => (last'.next_page = ToString(last'.page + 1) /\ cur'.hasMore)]_vars

\* the second page of the list has been merged and loading goes on
C36_Witness ==
  /\ photoSet # <<>>
  /\ last.op = "resolve" /\ last.page = FirstPage + 1 /\ last.next_page = "3"
  /\ cur.page = FirstPage + 2 /\ cur.hasMore

\* ---- claims about reset and error handling ------------------------------------

\* C37: when loadPhotos(true) fails, the collection and the cursor are what
\* they were before the call: neither the call nor the failure touches them,
\* and the collection is replaced only by the success of a reset fetch of
\* page 1, never cleared before the fetch settles.
C37_FailedResetKeepsState ==
  [][/\ (LoadCalled /\ last'.reset)
          => (cur'.photos = cur.photos /\ cur'.page = cur.page)
     /\ (Rejected /\ last'.reset)
          => (cur'.photos = cur.photos /\ cur'.page = cur.page)
     /\ (\E f \in inflight : f.reset)
          => (Resolved \/ (cur'.photos = cur.photos /\ cur'.page = cur.page))
     /\ ~IsPrefix(cur.photos, cur'.photos)
          => (Resolved /\ last'.reset /\ last'.page = FirstPage
                /\ cur'.photos = last'.photos)]_vars

\* a reset failed after a page had been merged: collection and cursor stand
C37_Witness ==
  /\ last.op = "reject" /\ last.reset /\ last.page = FirstPage
  /\ cur.photos # <<>> /\ cur.page = FirstPage + 1
  /\ cur.error # NoError /\ ~loadingRef

\* ---- claims about the trigger's busy flag --------------------------------------

\* the flag was set and this step cleared it
BusyCleared == isLoadingRef /\ ~isLoadingRef'

\* the model's horizon: the pending timeout would start a fetch beyond the budget
Horizon == timer.pending /\ ~CanCall

\* C38: the trigger's busy flag never stays set forever: it is cleared when
\* the promise of the dispatched callback settles, by success, by failure or
\* at once for a call the controller refused, or when the trigger is torn
\* down; every fetch settling, a set flag is eventually cleared, and a
\* visible sentinel is passed over only while the flag is set.
C38_BusyFlagCleared ==
  /\ [][/\ ((Resolved \/ Rejected) /\ last'.via = "trigger") => ~isLoadingRef'
        /\ BusyCleared =>
             \/ (Resolved \/ Rejected) /\ last'.via = "trigger"
             \/ LoadCalled /\ last'.via = "trigger" /\ last'.ignored
             \/ last'.op \in {"render", "unmount"}
        /\ (last'.op = "intersect" /\ last'.ignored /\ last'.via = "visible")
             => isLoadingRef]_vars
  /\ [](isLoadingRef => (timer.pending \/ TriggerPending))
  /\ isLoadingRef ~> (~isLoadingRef \/ Horizon)

\* the flag set by an accepted event was cleared by the failure of the fetch
\* it led to, and the trigger is still enabled
C38_Witness ==
  /\ variant = "debounce" /\ last.op = "reject" /\ last.via = "trigger"
  /\ ~isLoadingRef /\ ~timer.pending /\ mounted /\ observer.active
  /\ Len(fetchLog) < MaxFetches

\* C39: the gallery's error is non-null exactly when the load that completed
\* last failed and no load has started since: a load that starts clears it,
\* a load that succeeds leaves it null, a failure sets it, a call refused by
\* the in-flight guard does not change it, and nothing else touches it.
C39_ErrorIffLastLoadFailed ==
  /\ [](inflight # {} => cur.error = NoError)
  /\ [][/\ (LoadCalled /\ ~last'.ignored) => cur'.error = NoError
        /\ (LoadCalled /\ last'.ignored) => cur'.error = cur.error
        /\ Resolved => (cur.error = NoError /\ cur'.error = NoError)
        /\ Rejected => cur'.error # NoError
        /\ ~(LoadCalled \/ Resolved \/ Rejected) => cur'.error = cur.error]_vars

\* a load has started after a failure: the error is cleared, the last render
\* still shows it
C39_Witness ==
  /\ last.op = "load" /\ ~last.ignored /\ inflight # {}
  /\ cur.error = NoError /\ view.error # NoError

\* ---- claims about the photo detail view, continued ----------------------------

\* the page holds a photo / an error
HasPhoto(d) == d.photo # NullValue
HasError(d) == d.error # NoMessage

\* a loadPhoto call has come to its end
LoadEnded(d) ==
  /\ ~d.inflight /\ ~d.loadingRef /\ ~d.isLoading
  /\ HasPhoto(d) # HasError(d)

\* C40: in the detail view every loadPhoto call made with a defined id
\* eventually ends with the loading flag and the re-entrancy guard both false
\* and with exactly one of a photo or an error set, and a loadPhoto call made
\* while another is in flight starts no second lookup and changes nothing.
C40_LoadPhotoEnds ==
  /\ [][/\ detail'.last = "load" => (detail.id # 0 /\ detail'.inflight /\ detail'.lookups = 1)
        /\ detail'.last = "settle" => LoadEnded(detail')
        /\ (detail.inflight /\ detail'.last = "ignored")
             => detail' = [detail EXCEPT !.last = "ignored"]]_vars
  /\ [](detail.lookups <= 1 /\ (detail.inflight => detail.loadingRef))
  /\ detail.inflight ~> LoadEnded(detail)

\* the lookup of the mount effect has ended with the photo of the route
C40_Witness ==
  /\ detail.last = "settle" /\ detail.cause = "resolved" /\ detail.lookups = 1
  /\ detail.photo = PhotoValue(detail.id) /\ detail.error = NoMessage
  /\ ~detail.isLoading /\ ~detail.loadingRef /\ ~detail.inflight
====
